---- MODULE Spec2Model ----
(***************************************************************************)
(* Model of OutlookAutomation.py: the mail fetcher                         *)
(* (download_office365_attachments), the classifier/router                 *)
(* (filter_office365_attachments) and main, which runs one after the other.*)
(*                                                                         *)
(* Strings.  A file name is a sequence of one-character strings, so that   *)
(* os.path.splitext, str.lower and the substring test `a in b` are         *)
(* computed as Python computes them.  A subject or a body is a sequence of *)
(* words (the blanks between the words are not kept); str.find and         *)
(* str.startswith are computed on these sequences.                         *)
(***************************************************************************)
EXTENDS Integers, Sequences, FiniteSets, TLC

(***************************************************************************)
(* Bounds of the model.                                                    *)
(***************************************************************************)
MaxMsgs == 2
MaxPages == 2

(***************************************************************************)
(* Python string primitives.                                               *)
(***************************************************************************)
\* Python `a in b` on strings: a is a contiguous part of b.
IsSubstring(a, b) ==
    \E i \in 0..(Len(b) - Len(a)) : SubSeq(b, i + 1, i + Len(a)) = a

\* Python b.startswith(a).
StartsWith(b, a) ==
    Len(a) <= Len(b) /\ SubSeq(b, 1, Len(a)) = a

\* Python str.lower, on the letters that occur in the names of the model.
LowerChar(c) ==
    CASE c = "P" -> "p"
      [] c = "D" -> "d"
      [] c = "F" -> "f"
      [] OTHER -> c

lower(s) == [i \in 1..Len(s) |-> LowerChar(s[i])]

\* Position of the last "." of p, 0 when there is none.
LastDot(p) ==
    LET dots == {i \in 1..Len(p) : p[i] = "."}
    IN  IF dots = {} THEN 0 ELSE CHOOSE i \in dots : \A j \in dots : j <= i

\* os.path.splitext on a name without directory separators: the extension
\* starts at the last dot, unless only dots precede it.
splitext(p) ==
    LET d == LastDot(p)
    IN  IF d > 0 /\ (\E i \in 1..(d - 1) : p[i] # ".")
        THEN <<SubSeq(p, 1, d - 1), SubSeq(p, d, Len(p))>>
        ELSE <<p, <<>>>>

PdfExt == <<".", "p", "d", "f">>

\* Lines 91-92: file_extension == ".pdf" after lower().
IsPdfCaseSensitive(name) == splitext(name)[2] = PdfExt

IsPdf(name) == lower(splitext(name)[2]) = PdfExt

(***************************************************************************)
(* extract_text_from_html.  Markup is a sequence of tokens: a tag, a       *)
(* word, a character reference, or " " for white space next to a tag or    *)
(* at an end of the text.  The parser turns each run of tokens between     *)
(* tags into one string, decoding the character references in it;          *)
(* get_text(separator=' ') joins the strings with a blank; strip() drops   *)
(* the white space at both ends.                                           *)
(***************************************************************************)
Tags == {"<p>", "</p>", "<b>", "</b>"}

DecodeEntity(w) ==
    CASE w = "&lt;b&gt;" -> "<b>"
      [] w = "&lt;/b&gt;" -> "</b>"
      [] w = "&amp;lt;b&amp;gt;" -> "&lt;b&gt;"
      [] OTHER -> w

\* Line 35: the strings of the parse tree, in document order; cur is the
\* string being read.
RECURSIVE Strings(_, _)
Strings(html, cur) ==
    IF html = <<>> THEN (IF cur = <<>> THEN <<>> ELSE <<cur>>)
    ELSE IF Head(html) \in Tags
         THEN (IF cur = <<>> THEN <<>> ELSE <<cur>>) \o Strings(Tail(html), <<>>)
         ELSE Strings(Tail(html), Append(cur, DecodeEntity(Head(html))))

\* Line 36: soup.get_text(separator=' ').
RECURSIVE get_text(_)
get_text(strings) ==
    IF strings = <<>> THEN <<>>
    ELSE IF Len(strings) = 1 THEN strings[1]
    ELSE strings[1] \o <<" ">> \o get_text(Tail(strings))

RECURSIVE lstrip(_)
lstrip(text) ==
    IF text # <<>> /\ Head(text) = " " THEN lstrip(Tail(text)) ELSE text

RECURSIVE rstrip(_)
rstrip(text) ==
    IF text # <<>> /\ text[Len(text)] = " "
    THEN rstrip(SubSeq(text, 1, Len(text) - 1))
    ELSE text

\* Line 37: text.strip().
stripOneBlank(text) ==
    LET t == IF text # <<>> /\ Head(text) = " " THEN Tail(text) ELSE text
    IN  IF t # <<>> /\ t[Len(t)] = " " THEN SubSeq(t, 1, Len(t) - 1) ELSE t

strip(text) == rstrip(lstrip(text))

extract_text_from_html(html) == strip(get_text(Strings(html, <<>>)))

(***************************************************************************)
(* The rule tables of filter_office365_attachments, in declared order.     *)
(***************************************************************************)
KeyAhli ==
    <<"[Not", "Virus", "Scanned]", "Ahli", "Bank", "-", "Statement", ",", "Portfolio">>
KeyFahes ==
    <<"[Not", "Virus", "Scanned]", "WOQOD", "-", "Fahes", "-", "Account",
      "Statement", "&", "Portfolio">>
KeyWaqod ==
    <<"[Not", "Virus", "Scanned]", "Ahli", "Brokerage", "-", "Ardh", "Al", "Khaleej">>

Subject_filter ==
    << <<KeyAhli, "Ahli">>, <<KeyFahes, "Fahes">>, <<KeyWaqod, "Waqod">> >>

BodyTitle_filter ==
    << << <<"CIVIL", "FUND", "-", "QINVEST">>, "Civil I">>,
       << <<"GIRAFFA", "QIC">>, "Giraffa">>,
       << <<"OQIC">>, "Oman">>,
       << <<"MILITARY", "FUND", "-", "QINVEST", "/", "N">>, "Military I">>,
       << <<"QATAR", "INSURANCE", "COMPANY", "S.A.Q">>, "QIC">>,
       << <<"RASLAFFAN", "OPERATING", "COMPANY", "WLL">>, "QEWC">> >>

Stem170792 == <<"1", "7", "0", "7", "9", "2">>
Stem170793 == <<"1", "7", "0", "7", "9", "3">>

DocName_filter ==
    << <<Stem170792, "Pension C">>, <<Stem170793, "Pension M">> >>

Labels ==
    {Subject_filter[i][2] : i \in 1..Len(Subject_filter)}
      \cup {BodyTitle_filter[i][2] : i \in 1..Len(BodyTitle_filter)}
      \cup {DocName_filter[i][2] : i \in 1..Len(DocName_filter)}

(***************************************************************************)
(* The label -> destination mapping of PortfoliosPath.json.  The file is   *)
(* external: it may be absent, and it may lack labels.                     *)
(***************************************************************************)
PortfolioPath(label) ==
    CASE label \in {"Pension C", "Pension M"} -> "/data/Pension"
      [] OTHER -> label

ConfigFull == [l \in Labels |-> PortfolioPath(l)]

ConfigPartial == [l \in Labels \ {"Fahes", "Oman"} |-> PortfolioPath(l)]

Configs == {ConfigFull, ConfigPartial}

Paths == {PortfolioPath(l) : l \in Labels}

(***************************************************************************)
(* The mailbox the Graph API serves: attachment names, subjects, bodies    *)
(* and the message details built from them.                                *)
(***************************************************************************)
NameA == <<"a", ".", "p", "d", "f">>
NameXA == <<"x", "a", ".", "p", "d", "f">>
NameUpper == <<"b", ".", "P", "D", "F">>
NameTxt == <<"n", ".", "t", "x", "t">>
NameDoc == Stem170792 \o PdfExt

SubjectPlain == <<"Monthly", "report">>
SubjectFahes == <<"FW:">> \o KeyFahes
SubjectWaqodAhli == KeyWaqod \o KeyAhli

BodyPlain == <<"Dear", "Sir">>
BodyOQIC == <<"OQIC", "statement">>
BodyReOQIC == <<"Re:", "OQIC">>
BodyHtmlOQIC == <<"<p>", "OQIC", "</p>">>

BodyHtmlBlank == <<"<p>", " ", "</p>", "OQIC", "statement", " ">>
BodyHtmlTwo == <<"<p>", "Dear", "</p>", "<p>", "Sir", "</p>">>
BodyHtmlEscaped == <<"&lt;b&gt;", "OQIC", "&lt;/b&gt;">>
BodyHtmlTwiceEscaped == <<"<p>", "&amp;lt;b&amp;gt;", "OQIC", "</p>">>

Message(subject, body, contentType, attachments) ==
    [subject |-> subject, body |-> body, contentType |-> contentType,
     attachments |-> attachments]

Profiles ==
    { Message(SubjectPlain, BodyPlain, "text", <<NameA>>),
      Message(SubjectPlain, BodyHtmlOQIC, "text/html", <<NameA, NameDoc>>),
      Message(SubjectWaqodAhli, BodyOQIC, "text", <<NameTxt, NameUpper>>),
      Message(SubjectPlain, BodyReOQIC, "text", <<NameDoc>>),
      Message(SubjectFahes, BodyHtmlOQIC, "text", <<NameXA, NameDoc>>),
      Message(SubjectPlain, BodyPlain, "text", <<NameTxt>>) }

\* A JSON null (Python None) and a key the JSON object lacks.  Each is
\* written as a one-element sequence that no text of the model equals; no
\* string operation is applied to them.
NoneValue == <<"None">>
AbsentValue == <<"KeyError">>

\* Message details with a null or absent subject or body.
MalformedProfiles ==
    { Message(NoneValue, BodyPlain, "text", <<NameA>>),
      Message(AbsentValue, BodyPlain, "text", <<NameA>>),
      Message(SubjectPlain, NoneValue, "text", <<NameA>>),
      Message(SubjectPlain, AbsentValue, "text", <<NameTxt>>),
      Message(NoneValue, NoneValue, "text", <<NameTxt>>) }

\* Message details with an HTML body.
MarkupProfiles ==
    { Message(SubjectPlain, BodyHtmlOQIC, "text/html", <<NameA>>),
      Message(SubjectPlain, BodyHtmlBlank, "text/html", <<NameA>>),
      Message(SubjectPlain, BodyHtmlTwo, "text/html", <<NameTxt, NameUpper>>),
      Message(SubjectPlain, BodyHtmlEscaped, "text/html", <<NameA>>),
      Message(SubjectPlain, BodyHtmlTwiceEscaped, "text/html", <<NameDoc>>),
      Message(SubjectPlain, BodyHtmlTwo, "text/html", <<NameTxt>>) }

\* Files left in the staging directory before the run.
StaleChoices == {{}, {NameDoc}, {NameA}}

RECURSIVE Sum(_)
Sum(sizes) == IF sizes = <<>> THEN 0 ELSE Head(sizes) + Sum(Tail(sizes))

\* The pages of a mailbox of n messages 1..n, for the page sizes given: the
\* server returns the messages in order, and every page but the last
\* carries a next-page cursor.
PagesOf(sizes) ==
    [p \in 1..Len(sizes) |->
        [i \in 1..sizes[p] |-> Sum(SubSeq(sizes, 1, p - 1)) + i]]

Layouts(n) ==
    UNION {{sizes \in [1..p -> 0..n] : Sum(sizes) = n} : p \in 1..MaxPages}

RECURSIVE Flatten(_)
Flatten(pages) == IF pages = <<>> THEN <<>> ELSE Head(pages) \o Flatten(Tail(pages))

\* All orders in which os.listdir may return the entries of a directory.
Perms(S) ==
    {f \in [1..Cardinality(S) -> S] : \A i, j \in 1..Cardinality(S) : f[i] = f[j] => i = j}

Range(seq) == {seq[i] : i \in 1..Len(seq)}

(***************************************************************************)
(* State.                                                                  *)
(***************************************************************************)
VARIABLES
    server,           \* the pages of the list endpoint, each a sequence of message ids
    detail,           \* message id -> message detail served by the get-message endpoint
    configExists,     \* PortfoliosPath.json is present
    config,           \* its content: label -> destination path
    pc,               \* position of main
    url,              \* number of the list page the next list request asks for
    messages,         \* response.json()["value"] of the current page
    mi,               \* position of the message loop in messages
    ai,               \* position of the attachment loop in the message's attachments
    attachments,      \* PDF names collected for the current message
    response,         \* kind of the last response received: none, list, detail, content
    mail_dict,        \* MessageIndex
    attachment_dict,  \* AttachmentIndex, in insertion order: sequence of <<id, names>>
    requestLog,       \* every request issued so far, with its outcome
    written,          \* names fetch has written into the staging directory
    stagingExists,    \* the Attachments directory exists
    root,             \* files directly in the staging directory
    unclassifiedDir,  \* Attachments/Unclassified exists
    unclassified,     \* files in Attachments/Unclassified
    destDirs,         \* destination directories created so far
    dest,             \* files in destination directories: set of <<path, name>>
    listing,          \* os.listdir(path) as classify took it
    fi,               \* position of the file loop in listing
    matching_keys,    \* owners found for the current file
    ki,               \* position of the owner loop in matching_keys
    destination_path, \* destination resolved for the current file
    error             \* the exception that ended main, or the one fetch caught

inputVars == <<server, detail, configExists, config>>
fetchVars == <<url, messages, mi, ai, attachments, response, mail_dict,
               attachment_dict, requestLog, written>>
fsVars == <<stagingExists, root, unclassifiedDir, unclassified, destDirs, dest>>
classifyVars == <<listing, fi, matching_keys, ki, destination_path>>
vars == <<inputVars, pc, fetchVars, fsVars, classifyVars, error>>

EmptyDict == [k \in {} |-> <<>>]

InitWith(profiles, stales) ==
    /\ \E n \in 0..MaxMsgs :
         /\ detail \in [1..n -> profiles]
         /\ \E sizes \in Layouts(n) : server = PagesOf(sizes)
    /\ configExists \in BOOLEAN
    /\ config \in Configs
    /\ (~configExists) => config = ConfigFull
    /\ pc = "start"
    /\ url = 1
    /\ messages = <<>>
    /\ mi = 1
    /\ ai = 1
    /\ attachments = <<>>
    /\ response = "none"
    /\ mail_dict = EmptyDict
    /\ attachment_dict = <<>>
    /\ requestLog = <<>>
    /\ written = {}
    /\ root \in stales
    /\ stagingExists = (root # {})
    /\ unclassifiedDir = FALSE
    /\ unclassified = {}
    /\ destDirs = {}
    /\ dest = {}
    /\ listing = <<>>
    /\ fi = 1
    /\ matching_keys = <<>>
    /\ ki = 1
    /\ destination_path = "none"
    /\ error = "none"

Init == InitWith(Profiles, StaleChoices)

(***************************************************************************)
(* download_office365_attachments                                          *)
(***************************************************************************)
Request(kind, arg, ok) == [kind |-> kind, arg |-> arg, ok |-> ok]

\* Lines 53-54: os.makedirs(path, exist_ok=True).
MakeStaging ==
    /\ pc = "start"
    /\ stagingExists' = TRUE
    /\ pc' = "list"
    /\ UNCHANGED <<inputVars, fetchVars, root, unclassifiedDir, unclassified,
                   destDirs, dest, classifyVars, error>>

\* Lines 137-139: the except clause prints the error and returns the two
\* dictionaries as they are; main goes on to filter_office365_attachments.
RequestFailedDropsIndexes(kind, arg) ==
    /\ requestLog' = Append(requestLog, Request(kind, arg, FALSE))
    /\ pc' = "classify"
    /\ error' = "RequestException"
    /\ mail_dict' = EmptyDict
    /\ attachment_dict' = <<>>
    /\ UNCHANGED <<url, messages, mi, ai, attachments, response, written>>

RequestFailed(kind, arg) ==
    /\ requestLog' = Append(requestLog, Request(kind, arg, FALSE))
    /\ pc' = "classify"
    /\ error' = "RequestException"
    /\ UNCHANGED <<url, messages, mi, ai, attachments, response, mail_dict,
                   attachment_dict, written>>

\* Lines 73-75: the list request succeeds.
GetPage ==
    /\ pc = "list"
    /\ requestLog' = Append(requestLog, Request("list", url, TRUE))
    /\ response' = "list"
    /\ messages' = server[url]
    /\ mi' = 1
    /\ pc' = "message"
    /\ UNCHANGED <<inputVars, url, ai, attachments, mail_dict, attachment_dict,
                   written, fsVars, classifyVars, error>>

\* Lines 73-74: the list request fails (bad status or connection error).
GetPageFails ==
    /\ pc = "list"
    /\ RequestFailed("list", url)
    /\ UNCHANGED <<inputVars, fsVars, classifyVars>>

\* Lines 77-86: the detail request of the next message succeeds.
GetDetail ==
    /\ pc = "message"
    /\ mi <= Len(messages)
    /\ requestLog' = Append(requestLog, Request("detail", messages[mi], TRUE))
    /\ response' = "detail"
    /\ attachments' = <<>>
    /\ ai' = 1
    /\ pc' = "attachment"
    /\ UNCHANGED <<inputVars, url, messages, mi, mail_dict, attachment_dict,
                   written, fsVars, classifyVars, error>>

\* Lines 82-83: the detail request fails.
GetDetailFails ==
    /\ pc = "message"
    /\ mi <= Len(messages)
    /\ RequestFailed("detail", messages[mi])
    /\ UNCHANGED <<inputVars, fsVars, classifyVars>>

email_data == detail[messages[mi]]

\* Lines 87-92: an attachment whose extension is not .pdf is passed over.
SkipAttachment ==
    /\ pc = "attachment"
    /\ ai <= Len(email_data.attachments)
    /\ ~IsPdf(email_data.attachments[ai])
    /\ ai' = ai + 1
    /\ UNCHANGED <<inputVars, pc, url, messages, mi, attachments, response,
                   mail_dict, attachment_dict, requestLog, written, fsVars,
                   classifyVars, error>>

\* Lines 92-106: a PDF is listed, downloaded and written to staging.
DownloadAttachment ==
    /\ pc = "attachment"
    /\ ai <= Len(email_data.attachments)
    /\ IsPdf(email_data.attachments[ai])
    /\ attachments' = Append(attachments, email_data.attachments[ai])
    /\ requestLog' = Append(requestLog,
                            Request("content", <<messages[mi], ai>>, TRUE))
    /\ response' = "content"
    /\ root' = root \cup {email_data.attachments[ai]}
    /\ written' = written \cup {email_data.attachments[ai]}
    /\ ai' = ai + 1
    /\ UNCHANGED <<inputVars, pc, url, messages, mi, mail_dict, attachment_dict,
                   stagingExists, unclassifiedDir, unclassified, destDirs, dest,
                   classifyVars, error>>

\* Lines 101-102: the download request fails.
DownloadFailsRollsBack ==
    /\ pc = "attachment"
    /\ ai <= Len(email_data.attachments)
    /\ IsPdf(email_data.attachments[ai])
    /\ RequestFailed("content", <<messages[mi], ai>>)
    /\ root' = root \ Range(attachments)
    /\ UNCHANGED <<inputVars, stagingExists, unclassifiedDir, unclassified,
                   destDirs, dest, classifyVars>>

DownloadFails ==
    /\ pc = "attachment"
    /\ ai <= Len(email_data.attachments)
    /\ IsPdf(email_data.attachments[ai])
    /\ RequestFailed("content", <<messages[mi], ai>>)
    /\ UNCHANGED <<inputVars, fsVars, classifyVars>>

\* Python d[k] = v on a dictionary kept in insertion order.
DictSet(d, k, v) ==
    IF \E i \in 1..Len(d) : d[i][1] = k
    THEN [i \in 1..Len(d) |-> IF d[i][1] = k THEN <<k, v>> ELSE d[i]]
    ELSE Append(d, <<k, v>>)

DictKeys(d) == {d[i][1] : i \in 1..Len(d)}

DictGet(d, k) == d[CHOOSE i \in 1..Len(d) : d[i][1] = k][2]

\* Lines 112-115: the body, through the text extractor when it is HTML.
BodyOf(data) ==
    IF data.contentType = "text/html"
    THEN extract_text_from_html(data.body)
    ELSE data.body

\* Lines 118-124: a MessageIndex entry only for a message with PDFs.
RecordsMailAlways(names) == TRUE

RecordsMail(names) == names # <<>>

\* Lines 109-112: email_data["subject"] and email_data["body"]["content"]
\* raise KeyError when the key is absent.
FieldError(data) ==
    IF data.subject = AbsentValue THEN "KeyError: subject"
    ELSE IF data.body = AbsentValue THEN "KeyError: body"
    ELSE ""

\* Lines 108-126: both indexes are updated for the message.
RecordMessage ==
    /\ pc = "attachment"
    /\ ai > Len(email_data.attachments)
    /\ FieldError(email_data) = ""
    /\ mail_dict' =
         IF RecordsMail(attachments)
         THEN [k \in DOMAIN mail_dict \cup {messages[mi]} |->
                 IF k = messages[mi]
                 THEN [subject |-> email_data.subject, body |-> BodyOf(email_data)]
                 ELSE mail_dict[k]]
         ELSE mail_dict
    /\ attachment_dict' = DictSet(attachment_dict, messages[mi], attachments)
    /\ mi' = mi + 1
    /\ pc' = "message"
    /\ UNCHANGED <<inputVars, url, messages, ai, attachments, response,
                   requestLog, written, fsVars, classifyVars, error>>

\* Lines 109-112 on a detail without the key: the KeyError is no
\* RequestException, the except clause of line 137 lets it through and
\* main ends with it; the message is in neither index.
RecordMessageRaises ==
    /\ pc = "attachment"
    /\ ai > Len(email_data.attachments)
    /\ FieldError(email_data) # ""
    /\ pc' = "crashed"
    /\ error' = FieldError(email_data)
    /\ UNCHANGED <<inputVars, fetchVars, fsVars, classifyVars>>

\* Line 129: response.json().get("@odata.nextLink") reads the LAST response
\* received.  Only a list response can carry the cursor; a message detail
\* has none.
HasNextLink(resp, page) == resp = "list" /\ page < Len(server)

\* Lines 129-133: a cursor is found and followed.
FollowNextLink ==
    /\ pc = "message"
    /\ mi > Len(messages)
    /\ response \in {"list", "detail"}
    /\ HasNextLink(response, url)
    /\ url' = url + 1
    /\ pc' = "list"
    /\ UNCHANGED <<inputVars, messages, mi, ai, attachments, response, mail_dict,
                   attachment_dict, requestLog, written, fsVars, classifyVars,
                   error>>

\* Lines 129-135: no cursor is found: fetch returns.
NoNextLink ==
    /\ pc = "message"
    /\ mi > Len(messages)
    /\ response \in {"list", "detail"}
    /\ ~HasNextLink(response, url)
    /\ pc' = "classify"
    /\ UNCHANGED <<inputVars, fetchVars, fsVars, classifyVars, error>>

\* Line 129 when the last response is the raw content of an attachment:
\* response.json() raises.  With a requests library whose JSONDecodeError
\* is a RequestException the except clause of line 137 catches it.
NextLinkJsonErrorCaught ==
    /\ pc = "message"
    /\ mi > Len(messages)
    /\ response = "content"
    /\ pc' = "classify"
    /\ error' = "JSONDecodeError"
    /\ UNCHANGED <<inputVars, fetchVars, fsVars, classifyVars>>

\* With an older requests library the error is a plain ValueError, which
\* the except clause does not catch: main ends with it.
NextLinkJsonErrorRaised ==
    /\ pc = "message"
    /\ mi > Len(messages)
    /\ response = "content"
    /\ pc' = "crashed"
    /\ error' = "ValueError"
    /\ UNCHANGED <<inputVars, fetchVars, fsVars, classifyVars>>

Fetch ==
    \/ MakeStaging
    \/ GetPage
    \/ GetPageFails
    \/ GetDetail
    \/ GetDetailFails
    \/ SkipAttachment
    \/ DownloadAttachment
    \/ DownloadFails
    \/ RecordMessage
    \/ FollowNextLink
    \/ NoNextLink
    \/ NextLinkJsonErrorCaught
    \/ NextLinkJsonErrorRaised

(***************************************************************************)
(* filter_office365_attachments                                            *)
(***************************************************************************)
\* Line 164: os.listdir(path), taken once, in an order the OS chooses.
Entries == root \cup (IF unclassifiedDir THEN {<<"Unclassified">>} ELSE {})

ListDir ==
    /\ pc = "classify"
    /\ listing' \in Perms(Entries)
    /\ fi' = 1
    /\ pc' = "file"
    /\ UNCHANGED <<inputVars, fetchVars, fsVars, matching_keys, ki,
                   destination_path, error>>

attachment == listing[fi]

\* Lines 165-168: the ids whose list has a name that CONTAINS the file's
\* name (`attachment in string` is the substring test), in index order.
MatchingKeysExact(name) ==
    LET Owns(e) == \E j \in 1..Len(e[2]) : name = e[2][j]
        owners == SelectSeq(attachment_dict, Owns)
    IN  [i \in 1..Len(owners) |-> owners[i][1]]

MatchingKeys(name) ==
    LET Owns(e) == \E j \in 1..Len(e[2]) : IsSubstring(name, e[2][j])
        owners == SelectSeq(attachment_dict, Owns)
    IN  [i \in 1..Len(owners) |-> owners[i][1]]

FindOwners ==
    /\ pc = "file"
    /\ fi <= Len(listing)
    /\ matching_keys' = MatchingKeys(attachment)
    /\ ki' = 1
    /\ pc' = "key"
    /\ UNCHANGED <<inputVars, fetchVars, fsVars, listing, fi, destination_path,
                   error>>

key == matching_keys[ki]

\* Lines 177-181: the first key of Subject_filter found in the subject.
RECURSIVE ScanSubject(_, _)
ScanSubject(subject, i) ==
    IF i > Len(Subject_filter) THEN 0
    ELSE IF IsSubstring(Subject_filter[i][1], subject) THEN i
    ELSE ScanSubject(subject, i + 1)

subjectCheck(k) == ScanSubject(mail_dict[k].subject, 1)

\* Lines 171-175: the first key of BodyTitle_filter the body starts with.
RECURSIVE ScanBody(_, _)
ScanBody(body, i) ==
    IF i > Len(BodyTitle_filter) THEN 0
    ELSE IF StartsWith(body, BodyTitle_filter[i][1]) THEN i
    ELSE ScanBody(body, i + 1)

bodyTitleCheck(k) == ScanBody(mail_dict[k].body, 1)

\* Lines 179 and 173: None has no find and no startswith.  subjectCheck is
\* called first; bodyTitleCheck only when no subject key was found.
RuleCheckRaises(k) ==
    \/ mail_dict[k].subject = NoneValue
    \/ /\ subjectCheck(k) = 0
       /\ mail_dict[k].body = NoneValue

\* Line 199: the stem of the file's name as a key of DocName_filter.
DocNameIndex(name) ==
    LET hits == {i \in 1..Len(DocName_filter) : DocName_filter[i][1] = splitext(name)[1]}
    IN  IF hits = {} THEN 0 ELSE CHOOSE i \in hits : TRUE

\* Lines 183-211: the if / elif / elif / else chain: the label of the first
\* tier that matches, "" when none does.
MatchedLabelBodyFirst(k, name) ==
    IF bodyTitleCheck(k) # 0 THEN BodyTitle_filter[bodyTitleCheck(k)][2]
    ELSE IF subjectCheck(k) # 0 THEN Subject_filter[subjectCheck(k)][2]
    ELSE IF DocNameIndex(name) # 0 THEN DocName_filter[DocNameIndex(name)][2]
    ELSE ""

MatchedLabel(k, name) ==
    IF subjectCheck(k) # 0 THEN Subject_filter[subjectCheck(k)][2]
    ELSE IF bodyTitleCheck(k) # 0 THEN BodyTitle_filter[bodyTitleCheck(k)][2]
    ELSE IF DocNameIndex(name) # 0 THEN DocName_filter[DocNameIndex(name)][2]
    ELSE ""

\* Lines 184-187 (192-195, 200-203): the configuration is read, the label
\* looked up and the destination directory created.
ResolveDestination ==
    /\ pc = "key"
    /\ ki <= Len(matching_keys)
    /\ ~RuleCheckRaises(key)
    /\ MatchedLabel(key, attachment) # ""
    /\ configExists
    /\ MatchedLabel(key, attachment) \in DOMAIN config
    /\ destination_path' = config[MatchedLabel(key, attachment)]
    /\ destDirs' = destDirs \cup {config[MatchedLabel(key, attachment)]}
    /\ pc' = "copy"
    /\ UNCHANGED <<inputVars, fetchVars, stagingExists, root, unclassifiedDir,
                   unclassified, dest, listing, fi, matching_keys, ki, error>>

\* Line 184: open('PortfoliosPath.json') on a missing file.
ConfigFileMissing ==
    /\ pc = "key"
    /\ ki <= Len(matching_keys)
    /\ ~RuleCheckRaises(key)
    /\ MatchedLabel(key, attachment) # ""
    /\ ~configExists
    /\ pc' = "crashed"
    /\ error' = "FileNotFoundError: PortfoliosPath.json"
    /\ UNCHANGED <<inputVars, fetchVars, fsVars, classifyVars>>

\* Line 186: data[label] on a configuration without the label.
LabelMissing ==
    /\ pc = "key"
    /\ ki <= Len(matching_keys)
    /\ ~RuleCheckRaises(key)
    /\ MatchedLabel(key, attachment) # ""
    /\ configExists
    /\ MatchedLabel(key, attachment) \notin DOMAIN config
    /\ pc' = "crashed"
    /\ error' = "KeyError"
    /\ UNCHANGED <<inputVars, fetchVars, fsVars, classifyVars>>

\* Line 188: shutil.copy of the staged file into the destination.
CopyFile ==
    /\ pc = "copy"
    /\ attachment \in root
    /\ dest' = dest \cup {<<destination_path, attachment>>}
    /\ pc' = "remove"
    /\ UNCHANGED <<inputVars, fetchVars, stagingExists, root, unclassifiedDir,
                   unclassified, destDirs, classifyVars, error>>

\* Line 188 when an earlier owner already took the file out of staging.
CopyFileMissing ==
    /\ pc = "copy"
    /\ attachment \notin root
    /\ pc' = "crashed"
    /\ error' = "FileNotFoundError: staged file"
    /\ UNCHANGED <<inputVars, fetchVars, fsVars, classifyVars>>

\* Line 189: os.remove of the staged file; the owner loop goes on.
RemoveStagedKeepsFile ==
    /\ pc = "remove"
    /\ ki' = ki + 1
    /\ pc' = "key"
    /\ UNCHANGED <<inputVars, fetchVars, fsVars, listing, fi, matching_keys,
                   destination_path, error>>

RemoveStaged ==
    /\ pc = "remove"
    /\ root' = root \ {attachment}
    /\ ki' = ki + 1
    /\ pc' = "key"
    /\ UNCHANGED <<inputVars, fetchVars, stagingExists, unclassifiedDir,
                   unclassified, destDirs, dest, listing, fi, matching_keys,
                   destination_path, error>>

\* Lines 207-211: no tier matched: the file is moved to Unclassified.
MoveUnclassifiedCopies ==
    /\ pc = "key"
    /\ ki <= Len(matching_keys)
    /\ ~RuleCheckRaises(key)
    /\ MatchedLabel(key, attachment) = ""
    /\ attachment \in root
    /\ unclassifiedDir' = TRUE
    /\ unclassified' = unclassified \cup {attachment}
    /\ ki' = ki + 1
    /\ UNCHANGED <<inputVars, fetchVars, pc, stagingExists, root, destDirs, dest,
                   listing, fi, matching_keys, destination_path, error>>

MoveUnclassified ==
    /\ pc = "key"
    /\ ki <= Len(matching_keys)
    /\ ~RuleCheckRaises(key)
    /\ MatchedLabel(key, attachment) = ""
    /\ attachment \in root
    /\ unclassifiedDir' = TRUE
    /\ root' = root \ {attachment}
    /\ unclassified' = unclassified \cup {attachment}
    /\ ki' = ki + 1
    /\ UNCHANGED <<inputVars, fetchVars, pc, stagingExists, destDirs, dest,
                   listing, fi, matching_keys, destination_path, error>>

\* Lines 210-211 when an earlier owner already took the file out of staging:
\* the directory is created, then shutil.move fails.
MoveUnclassifiedMissing ==
    /\ pc = "key"
    /\ ki <= Len(matching_keys)
    /\ ~RuleCheckRaises(key)
    /\ MatchedLabel(key, attachment) = ""
    /\ attachment \notin root
    /\ unclassifiedDir' = TRUE
    /\ pc' = "crashed"
    /\ error' = IF attachment \in unclassified THEN "shutil.Error"
                ELSE "FileNotFoundError: staged file"
    /\ UNCHANGED <<inputVars, fetchVars, stagingExists, root, unclassified,
                   destDirs, dest, classifyVars>>

\* Lines 183 and 191 for an owner whose subject or body is None: the
\* AttributeError ends classify and main.
RuleCheckFails ==
    /\ pc = "key"
    /\ ki <= Len(matching_keys)
    /\ RuleCheckRaises(key)
    /\ pc' = "crashed"
    /\ error' = "AttributeError"
    /\ UNCHANGED <<inputVars, fetchVars, fsVars, classifyVars>>

\* Line 170: the owner loop is over (at once when the file has no owner).
NextFile ==
    /\ pc = "key"
    /\ ki > Len(matching_keys)
    /\ fi' = fi + 1
    /\ pc' = "file"
    /\ UNCHANGED <<inputVars, fetchVars, fsVars, listing, matching_keys, ki,
                   destination_path, error>>

\* Line 214: not os.listdir(path).
StagingEmptyIgnoresSubdir == root = {}

StagingEmpty == root = {} /\ ~unclassifiedDir

\* Lines 213-215 and 232: the staging directory is removed when empty.
Cleanup ==
    /\ pc = "file"
    /\ fi > Len(listing)
    /\ stagingExists' = (IF StagingEmpty THEN FALSE ELSE stagingExists)
    /\ pc' = "done"
    /\ UNCHANGED <<inputVars, fetchVars, root, unclassifiedDir, unclassified,
                   destDirs, dest, classifyVars, error>>

Classify ==
    \/ ListDir
    \/ FindOwners
    \/ ResolveDestination
    \/ ConfigFileMissing
    \/ LabelMissing
    \/ CopyFile
    \/ CopyFileMissing
    \/ RemoveStaged
    \/ MoveUnclassified
    \/ MoveUnclassifiedMissing
    \/ NextFile
    \/ Cleanup

Next == Fetch \/ Classify

Spec == Init /\ [][Next]_vars

\* download_office365_attachments alone, on a mailbox of messages with HTML
\* bodies: RecordMessage applies extract_text_from_html to each.
InitExtract == InitWith(MarkupProfiles, {{}})

SpecExtract == InitExtract /\ [][Fetch]_vars

\* The same program on a mailbox that also serves messages with a null or
\* absent subject or body.
InitMalformed == InitWith(Profiles \cup MalformedProfiles, {{}})

NextMalformed == Next \/ RecordMessageRaises \/ RuleCheckFails

SpecMalformed == InitMalformed /\ [][NextMalformed]_vars

(***************************************************************************)
(* Notions the properties are stated with.                                 *)
(***************************************************************************)
FetchPcs == {"start", "list", "message", "attachment"}

\* fetch is over and main went on (or ended).
FetchOver == pc \notin FetchPcs

FailedRequests == {i \in 1..Len(requestLog) : ~requestLog[i].ok}

\* A name whose extension is .pdf in any letter case.
EndsWithPdf(name) ==
    /\ Len(name) > 4
    /\ \E i \in 1..(Len(name) - 4) : name[i] # "."
    /\ \E e \in {<<".", x, y, z>> : x \in {"p", "P"}, y \in {"d", "D"}, z \in {"f", "F"}} :
          SubSeq(name, Len(name) - 3, Len(name)) = e

PdfNames(atts) == SelectSeq(atts, EndsWithPdf)

\* The messages fetch has processed to the end: their detail was received,
\* none of their downloads failed and the message loop has left them.
FullyProcessed ==
    {m \in DOMAIN detail :
        /\ \E i \in 1..Len(requestLog) :
              requestLog[i] = Request("detail", m, TRUE)
        /\ ~\E i \in FailedRequests :
              requestLog[i].kind = "content" /\ requestLog[i].arg[1] = m
        /\ ~(pc = "attachment" /\ messages[mi] = m)}

\* The messages whose AttachmentIndex list has exactly this name.
OwnersExact(f) ==
    {m \in DictKeys(attachment_dict) :
        \E j \in 1..Len(DictGet(attachment_dict, m)) :
            DictGet(attachment_dict, m)[j] = f}

SubjectMatches(m) ==
    {i \in 1..Len(Subject_filter) : IsSubstring(Subject_filter[i][1], mail_dict[m].subject)}

BodyMatches(m) ==
    {i \in 1..Len(BodyTitle_filter) :
        StartsWith(mail_dict[m].body, BodyTitle_filter[i][1])}

\* The filename-stem keys f consists of, followed by at most an extension.
StemMatches(f) ==
    {i \in 1..Len(DocName_filter) :
        LET k == DocName_filter[i][1]
        IN  /\ StartsWith(f, k)
            /\ \/ Len(f) = Len(k)
               \/ /\ f[Len(k) + 1] = "."
                  /\ \A j \in (Len(k) + 2)..Len(f) : f[j] # "."}

Min(S) == CHOOSE i \in S : \A j \in S : i <= j

\* f is in the destination directory of the label and nowhere else.
LandedIn(f, label) ==
    /\ label \in DOMAIN config
    /\ <<config[label], f>> \in dest
    /\ \A p \in Paths : <<p, f>> \in dest => p = config[label]
    /\ f \notin unclassified
    /\ f \notin root

Staged == Range(listing)

(***************************************************************************)
(* C1: in a run of fetch without request failure the next-page cursor is   *)
(* followed until a page carries none: when fetch is over, every message   *)
(* of every page is in AttachmentIndex, in the order of the pages, and the *)
(* last list request was for the last page.                                *)
(***************************************************************************)
C1_CursorChainFollowed ==
    (FetchOver /\ FailedRequests = {}) =>
        /\ [i \in 1..Len(attachment_dict) |-> attachment_dict[i][1]] = Flatten(server)
        /\ \E i \in 1..Len(requestLog) :
              requestLog[i] = Request("list", Len(server), TRUE)

(***************************************************************************)
(* C2: rule precedence is subject > body prefix > filename stem: when      *)
(* classify has completed, a staged file with an owning message is in the  *)
(* destination of the first subject key its subject contains; failing      *)
(* that, of the first body key its body starts with; failing that, of its  *)
(* filename stem; and in no other place.                                   *)
(***************************************************************************)
C2_Precedence ==
    pc = "done" =>
        \A f \in Staged : \A m \in OwnersExact(f) :
            /\ SubjectMatches(m) # {} =>
                  LandedIn(f, Subject_filter[Min(SubjectMatches(m))][2])
            /\ (SubjectMatches(m) = {} /\ BodyMatches(m) # {}) =>
                  LandedIn(f, BodyTitle_filter[Min(BodyMatches(m))][2])
            /\ (SubjectMatches(m) = {} /\ BodyMatches(m) = {} /\ StemMatches(f) # {}) =>
                  LandedIn(f, DocName_filter[Min(StemMatches(f))][2])

\* classify completed for a file whose owner's subject contains two subject
\* keys (the later-declared one first) and whose body starts with a body key.
C2_Witness ==
    /\ pc = "done"
    /\ \E f \in Staged : \E m \in OwnersExact(f) :
          /\ Cardinality(SubjectMatches(m)) > 1
          /\ BodyMatches(m) # {}
          /\ <<config["Ahli"], f>> \in dest

(***************************************************************************)
(* C3: at every moment, and so when fetch returns normally or after an     *)
(* abort, every processed message without PDF attachment is a key of       *)
(* AttachmentIndex with an empty list and no key of MessageIndex, and      *)
(* every key of MessageIndex is a key of AttachmentIndex with a non-empty  *)
(* list.                                                                   *)
(***************************************************************************)
C3_IndexPair ==
    /\ \A m \in FullyProcessed :
          PdfNames(detail[m].attachments) = <<>> =>
              /\ m \in DictKeys(attachment_dict)
              /\ DictGet(attachment_dict, m) = <<>>
              /\ m \notin DOMAIN mail_dict
    /\ \A k \in DOMAIN mail_dict :
          /\ k \in DictKeys(attachment_dict)
          /\ DictGet(attachment_dict, k) # <<>>

\* fetch returned after an abort, having processed a message whose only
\* attachment is not a PDF: it has an empty list and no MessageIndex entry.
C3_Witness ==
    /\ pc = "classify"
    /\ FailedRequests # {}
    /\ \E m \in FullyProcessed :
          /\ detail[m].attachments # <<>>
          /\ DictGet(attachment_dict, m) = <<>>
          /\ m \notin DOMAIN mail_dict

(***************************************************************************)
(* C4: every processed message with at least one attachment whose          *)
(* extension is .pdf (in any letter case) is a key of both indexes, its    *)
(* AttachmentIndex list is exactly its PDF names in attachment order, each *)
(* listed name was written to staging (and is there while fetch runs and   *)
(* when it returns), and no other attachment was ever downloaded.          *)
(***************************************************************************)
C4_PdfRecorded ==
    /\ \A m \in FullyProcessed :
          PdfNames(detail[m].attachments) # <<>> =>
              /\ m \in DOMAIN mail_dict
              /\ m \in DictKeys(attachment_dict)
              /\ DictGet(attachment_dict, m) = PdfNames(detail[m].attachments)
              /\ Range(DictGet(attachment_dict, m)) \subseteq written
              /\ (pc \in FetchPcs \cup {"classify"}) =>
                    Range(DictGet(attachment_dict, m)) \subseteq root
    /\ \A i \in 1..Len(requestLog) :
          requestLog[i].kind = "content" =>
              EndsWithPdf(detail[requestLog[i].arg[1]].attachments[requestLog[i].arg[2]])
    /\ \A n \in written : EndsWithPdf(n)

\* fetch returned with a message recorded that has a non-PDF attachment and
\* a PDF attachment with an upper-case extension.
C4_Witness ==
    /\ pc = "classify"
    /\ \E m \in FullyProcessed :
          /\ NameUpper \in Range(DictGet(attachment_dict, m))
          /\ Len(detail[m].attachments) > Len(DictGet(attachment_dict, m))

(***************************************************************************)
(* C5: once a request of fetch has failed, it is the last request issued,  *)
(* fetch has returned to main without an error of its own reaching main,   *)
(* main is in (or past) classify, and the two indexes hold exactly the     *)
(* entries of the messages fully processed before the failure.             *)
(***************************************************************************)
C5_AbortReturnsPartial ==
    FailedRequests # {} =>
        /\ FailedRequests = {Len(requestLog)}
        /\ pc \in {"classify", "file", "key", "copy", "remove", "done", "crashed"}
        /\ error # "ValueError"
        /\ error # "none"
        /\ (pc = "crashed" => listing # <<>>)
        /\ DictKeys(attachment_dict) = FullyProcessed
        /\ \A m \in FullyProcessed :
              DictGet(attachment_dict, m) = PdfNames(detail[m].attachments)
        /\ DOMAIN mail_dict =
              {m \in FullyProcessed : PdfNames(detail[m].attachments) # <<>>}
        /\ \A m \in DOMAIN mail_dict : mail_dict[m].subject = detail[m].subject

\* A download failed after a message with a PDF had been processed, and
\* classify ran to its end on the partial data.
C5_Witness ==
    /\ pc = "done"
    /\ \E i \in FailedRequests : requestLog[i].kind = "content"
    /\ DOMAIN mail_dict # {}
    /\ dest # {}

(***************************************************************************)
(* C6: when classify has completed, a staged file that no AttachmentIndex  *)
(* entry lists and whose stem is a key of the filename-stem table is in    *)
(* the destination of that key's label.                                    *)
(***************************************************************************)
C6_OrphanRoutedByStem ==
    pc = "done" =>
        \A f \in Staged :
            (OwnersExact(f) = {} /\ StemMatches(f) # {}) =>
                LandedIn(f, DocName_filter[Min(StemMatches(f))][2])

(***************************************************************************)
(* C7: when classify has completed, every staged file with an owning       *)
(* message that matches no subject key and no body key, and whose stem is  *)
(* no filename-stem key, is in Attachments/Unclassified, not in the        *)
(* staging root and in no destination directory.                           *)
(***************************************************************************)
C7_UnclassifiedFallback ==
    pc = "done" =>
        \A f \in Staged :
            (/\ OwnersExact(f) # {}
             /\ \A m \in OwnersExact(f) : SubjectMatches(m) = {} /\ BodyMatches(m) = {}
             /\ StemMatches(f) = {}) =>
                /\ f \in unclassified
                /\ unclassifiedDir
                /\ stagingExists
                /\ f \notin root
                /\ \A p \in Paths : <<p, f>> \notin dest

\* classify completed with such a file, next to another that was routed.
C7_Witness ==
    /\ pc = "done"
    /\ \E f \in Staged :
          /\ OwnersExact(f) # {}
          /\ \A m \in OwnersExact(f) : SubjectMatches(m) = {} /\ BodyMatches(m) = {}
          /\ StemMatches(f) = {}
          /\ f \in unclassified
    /\ dest # {}

(***************************************************************************)
(* C8: with a complete configuration, when classify has ended, a file      *)
(* listed by two messages of which the earlier matches no rule and the     *)
(* later matches one is in the later owner's destination, and classify     *)
(* ended without error.                                                    *)
(***************************************************************************)
C8_FirstMatchingOwnerWins ==
    (pc \in {"done", "crashed"} /\ configExists /\ config = ConfigFull
       /\ error \notin {"ValueError"}) =>
        \A f \in Staged :
            LET owners == MatchingKeysExact(f)
            IN  (/\ Len(owners) = 2
                 /\ MatchedLabel(owners[1], f) = ""
                 /\ MatchedLabel(owners[2], f) # "") =>
                    /\ pc = "done"
                    /\ LandedIn(f, MatchedLabel(owners[2], f))

(***************************************************************************)
(* C9: when classify has finished with all files, the staging directory    *)
(* is gone if and only if it had no entry left; with a file in the staging *)
(* root or with the Unclassified subdirectory in it, it is retained.       *)
(***************************************************************************)
C9_Cleanup ==
    pc = "done" =>
        /\ stagingExists <=> (root # {} \/ unclassifiedDir)
        /\ unclassified # {} => (unclassifiedDir /\ stagingExists)

\* classify routed every staged file to a destination and removed staging.
C9_Witness ==
    /\ pc = "done"
    /\ ~stagingExists
    /\ dest # {}

(***************************************************************************)
(* C10: when classify has failed on the configuration (file missing, or    *)
(* matched label missing), the file it failed at is still in the staging   *)
(* root and not in Unclassified, the staging directory is still there and  *)
(* the later files of the listing are untouched in the staging root.       *)
(***************************************************************************)
C10_FatalConfigError ==
    (pc = "crashed" /\ error \in {"KeyError", "FileNotFoundError: PortfoliosPath.json"}) =>
        /\ attachment \in root
        /\ attachment \notin unclassified
        /\ stagingExists
        /\ \A j \in (fi + 1)..Len(listing) :
              listing[j] \in root /\ listing[j] \notin unclassified

(***************************************************************************)
(* C11: a message whose subject or body is null or absent never makes the  *)
(* run crash: no KeyError or AttributeError ends main, every message whose *)
(* attachments were gone through is recorded in AttachmentIndex, and when  *)
(* classify has completed a file whose only owner has such a field and     *)
(* matches no tier is in Unclassified.                                     *)
(***************************************************************************)
Malformed(data) ==
    data.subject \in {NoneValue, AbsentValue} \/ data.body \in {NoneValue, AbsentValue}

C11_MalformedTolerated ==
    /\ error \notin {"KeyError: subject", "KeyError: body", "AttributeError"}
    /\ \A m \in FullyProcessed : m \in DictKeys(attachment_dict)
    /\ pc = "done" =>
          \A f \in Staged :
              (/\ OwnersExact(f) # {}
               /\ \A m \in OwnersExact(f) : Malformed(detail[m])
               /\ StemMatches(f) = {}) => f \in unclassified

(***************************************************************************)
(* C12 as claimed: a second pass of the text extractor over the text it    *)
(* produced for any recorded HTML body returns that text unchanged.        *)
(***************************************************************************)
HtmlRecorded == {m \in DOMAIN mail_dict : detail[m].contentType = "text/html"}

C12_Idempotent ==
    \A m \in HtmlRecorded :
        extract_text_from_html(mail_dict[m].body) = mail_dict[m].body

\* The text holds no tag and no character reference.
PlainText(text) ==
    \A i \in 1..Len(text) : text[i] \notin Tags /\ DecodeEntity(text[i]) = text[i]

(***************************************************************************)
(* C12 as amended: when the text produced for a recorded HTML body holds   *)
(* no tag and no character reference, a second pass of the text extractor  *)
(* returns it unchanged.                                                   *)
(***************************************************************************)
C12_IdempotentOnPlainText ==
    \A m \in HtmlRecorded :
        PlainText(mail_dict[m].body) =>
            extract_text_from_html(mail_dict[m].body) = mail_dict[m].body

\* A body with white space around its tags was extracted to plain text.
C12_Witness ==
    \E m \in HtmlRecorded :
        /\ detail[m].body = BodyHtmlBlank
        /\ mail_dict[m].body = <<"OQIC", "statement">>
        /\ PlainText(mail_dict[m].body)

(***************************************************************************)
(* C13: while classify handles a file, the messages it takes as owners are *)
(* only those whose AttachmentIndex list has a name equal to the file's    *)
(* name.                                                                   *)
(***************************************************************************)
C13_ExactOwnersOnly ==
    pc \in {"key", "copy", "remove"} =>
        Range(matching_keys) \subseteq OwnersExact(attachment)

(***************************************************************************)
(* C14: on a rule match the destination is resolved and its directory      *)
(* created before the copy, and the staged file is deleted only after the  *)
(* copy: a file a rule has matched is in the staging root or in the        *)
(* resolved destination (in both between copy and delete), and a file is   *)
(* never both in Unclassified and in the staging root.                     *)
(***************************************************************************)
C14_CopyThenDelete ==
    /\ pc \in {"copy", "remove"} =>
          /\ destination_path \in destDirs
          /\ attachment \in root \/ <<destination_path, attachment>> \in dest
    /\ pc = "remove" =>
          attachment \in root /\ <<destination_path, attachment>> \in dest
    /\ \A f \in unclassified : f \notin root

(***************************************************************************)
(* C15: during classify no file is in more than one destination directory  *)
(* and no file is both in a destination directory and in Unclassified,     *)
(* also for a file with several owners: when a later owner is evaluated    *)
(* the file has already left the staging root.                             *)
(***************************************************************************)
C15_AtMostOnePlace ==
    /\ \A f \in {pf[2] : pf \in dest} \cup unclassified :
          /\ Cardinality({p \in Paths : <<p, f>> \in dest}) <= 1
          /\ ~(f \in unclassified /\ \E p \in Paths : <<p, f>> \in dest)
    /\ (pc \in {"key", "copy"} /\ 1 < ki /\ ki <= Len(matching_keys)) =>
          attachment \notin root

\* A file with two owners was copied to the first owner's destination and
\* the evaluation of the second owner ended classify.
C15_Witness ==
    /\ pc = "crashed"
    /\ Len(matching_keys) = 2
    /\ ki = 2
    /\ MatchedLabel(matching_keys[2], attachment) # ""
    /\ \E p \in Paths : <<p, attachment>> \in dest

(***************************************************************************)
(* C16: fetch never removes a file it has written: until classify starts   *)
(* every written file is in the staging root; a message one of whose       *)
(* downloads failed has no entry in MessageIndex or AttachmentIndex, while *)
(* the PDFs it downloaded before the failure stay written.                 *)
(***************************************************************************)
C16_NoRollback ==
    /\ pc \in FetchPcs \cup {"classify"} => written \subseteq root
    /\ \A i \in FailedRequests :
          requestLog[i].kind = "content" =>
              LET m == requestLog[i].arg[1]
              IN  /\ m \notin DictKeys(attachment_dict)
                  /\ m \notin DOMAIN mail_dict
                  /\ \A j \in 1..(requestLog[i].arg[2] - 1) :
                        EndsWithPdf(detail[m].attachments[j]) =>
                            detail[m].attachments[j] \in written

\* fetch returned after a failed download, and the staging root holds a
\* file fetch wrote that no AttachmentIndex entry lists.
C16_Witness ==
    /\ pc = "classify"
    /\ \E i \in FailedRequests : requestLog[i].kind = "content"
    /\ \E f \in written \cap root :
          \A k \in 1..Len(attachment_dict) : f \notin Range(attachment_dict[k][2])

====
